---- MODULE Spec2Model ----
(***************************************************************************)
(* Model of the batch OCR engine of Batch-Image-OCR (src/batch_ocr.py):    *)
(* the BatchOCR adapter (availability probe, process_image), the batch     *)
(* loop process_batch with its progress callback, and save_to_json with    *)
(* the JSON text it writes (specification Spec); and of the window        *)
(* around it (src/gui.py): the handlers of OCRApplication, the background  *)
(* thread of _run_processing and the callbacks it hands to the main loop   *)
(* (specification SpecGui).                                                *)
(*                                                                         *)
(* Strings are sequences of one-character strings, so that basename,       *)
(* strip, JSON encoding and JSON decoding are computed character by        *)
(* character as the Python code computes them.                             *)
(***************************************************************************)
EXTENDS Integers, Sequences, FiniteSets, TLC

(***************************************************************************)
(* Bounds of the model.                                                    *)
(***************************************************************************)
\* Work done on one adapter over its life: every process_batch invocation
\* counts one plus the number of its images, every save_to_json call one.
MaxWork == 5

(***************************************************************************)
(* Characters and the inputs the environment can supply.                   *)
(***************************************************************************)
QUOTE == "\""
BACKSLASH == "\\"
NEWLINE == "\n"
SPACE == " "
SEP == "/"

\* str.strip() with no argument removes leading and trailing whitespace.
Whitespace == {SPACE, NEWLINE, "\t", "\r", "\f"}

\* Image references: two paths in different directories sharing a basename,
\* and one path without a directory part.
Paths == { <<"d", SEP, "x">>, <<"e", SEP, "x">>, <<"y">> }

\* What pytesseract.image_to_string can hand back for an image.
RawTexts == { <<NEWLINE>>,
              <<SPACE, "a", NEWLINE>>,
              <<"a", NEWLINE, QUOTE, BACKSLASH>> }

\* Image.open or image_to_string raising an Exception.
Fail == <<"#fail">>
Outcomes == RawTexts \cup {Fail}

\* Destinations of save_to_json: a writable path and one open() rejects.
Destinations == {"out.json", "/no/such/dir/out.json"}
Writable(dest) == dest = "out.json"

\* A file that does not exist.
NoFile == <<"#nofile">>

(***************************************************************************)
(* Pure helpers.                                                           *)
(***************************************************************************)
Range(s) == { s[k] : k \in 1..Len(s) }

\* Position of the last SEP in p, 0 when there is none (str.rfind + 1).
RECURSIVE rfind(_, _)
rfind(p, k) ==
    IF k = 0 THEN 0
    ELSE IF p[k] = SEP THEN k
    ELSE rfind(p, k - 1)

\* os.path.basename: the part of the path after the last separator.
basename(p) == SubSeq(p, rfind(p, Len(p)) + 1, Len(p))

RECURSIVE lstrip(_)
lstrip(s) ==
    IF s = <<>> THEN s
    ELSE IF Head(s) \in Whitespace THEN lstrip(Tail(s))
    ELSE s

RECURSIVE rstrip(_)
rstrip(s) ==
    IF s = <<>> THEN s
    ELSE IF s[Len(s)] \in Whitespace THEN rstrip(SubSeq(s, 1, Len(s) - 1))
    ELSE s

\* text.strip()
strip(s) == rstrip(lstrip(s))

(***************************************************************************)
(* Python dict: an insertion-ordered sequence of <<key, value>> pairs.     *)
(***************************************************************************)
DictKeys(d) == [ k \in 1..Len(d) |-> d[k][1] ]
DictHas(d, key) == \E k \in 1..Len(d) : d[k][1] = key
DictGet(d, key) == d[CHOOSE k \in 1..Len(d) : d[k][1] = key][2]

\* Mutant of DictSet: dict.setdefault, an existing key keeps its old value.
DictSet_KeepFirst(d, key, value) ==
    IF DictHas(d, key) THEN d ELSE Append(d, <<key, value>>)

\* d[key] = value: an existing key keeps its position and takes the new
\* value, a new key goes to the end.
DictSet(d, key, value) ==
    IF DictHas(d, key)
    THEN [ k \in 1..Len(d) |-> IF d[k][1] = key THEN <<key, value>> ELSE d[k] ]
    ELSE Append(d, <<key, value>>)

(***************************************************************************)
(* json.dump(obj, f, indent=4, ensure_ascii=False) for a dict of strings.  *)
(***************************************************************************)
\* Mutant of EscapeChar: characters written without escaping.
EscapeChar_Raw(c) == <<c>>

\* The replacement json.encoder.ESCAPE_DCT gives for one character.
EscapeChar(c) ==
    IF c = QUOTE THEN <<BACKSLASH, QUOTE>>
    ELSE IF c = BACKSLASH THEN <<BACKSLASH, BACKSLASH>>
    ELSE IF c = NEWLINE THEN <<BACKSLASH, "n">>
    ELSE IF c = "\t" THEN <<BACKSLASH, "t">>
    ELSE IF c = "\r" THEN <<BACKSLASH, "r">>
    ELSE IF c = "\f" THEN <<BACKSLASH, "f">>
    ELSE <<c>>

RECURSIVE EscapeAll(_)
EscapeAll(s) ==
    IF s = <<>> THEN <<>>
    ELSE EscapeChar(Head(s)) \o EscapeAll(Tail(s))

\* json.encoder.py_encode_basestring: the quoted, escaped string.
encode_basestring(s) == <<QUOTE>> \o EscapeAll(s) \o <<QUOTE>>

\* Newline followed by one level of indent=4.
newline_indent == <<NEWLINE, SPACE, SPACE, SPACE, SPACE>>

\* The chunks _iterencode_dict yields for the items of d: the item
\* separator before every item but the first, then the key, the key
\* separator and the value.
RECURSIVE ItemChunks(_, _)
ItemChunks(d, first) ==
    IF d = <<>> THEN <<>>
    ELSE (IF first THEN <<>> ELSE << <<",">> \o newline_indent >>)
         \o << encode_basestring(Head(d)[1]),
               <<":", SPACE>>,
               encode_basestring(Head(d)[2]) >>
         \o ItemChunks(Tail(d), FALSE)

\* JSONEncoder.iterencode: the chunks json.dump passes to f.write, in order.
iterencode(d) ==
    IF d = <<>> THEN << <<"{", "}">> >>
    ELSE << <<"{">>, newline_indent >> \o ItemChunks(d, TRUE)
         \o << <<NEWLINE>>, <<"}">> >>

\* The text in the file after the first n chunks were written.
RECURSIVE WrittenChunks(_, _)
WrittenChunks(chunks, n) ==
    IF n = 0 THEN <<>>
    ELSE WrittenChunks(chunks, n - 1) \o chunks[n]

(***************************************************************************)
(* json.load of a text: an object whose keys and values are strings.       *)
(* The result is [ok, val]; ok = FALSE stands for JSONDecodeError.         *)
(***************************************************************************)
ParseError == [ok |-> FALSE, val |-> <<>>, next |-> 0]

RECURSIVE SkipWs(_, _)
SkipWs(s, p) ==
    IF p <= Len(s) /\ s[p] \in {SPACE, NEWLINE, "\t", "\r"}
    THEN SkipWs(s, p + 1)
    ELSE p

\* json.decoder.BACKSLASH: the character an escape stands for.
Unescape(c) ==
    IF c = "n" THEN NEWLINE
    ELSE IF c = "t" THEN "\t"
    ELSE IF c = "r" THEN "\r"
    ELSE IF c = "f" THEN "\f"
    ELSE c

\* json.decoder.py_scanstring from the character after the opening quote.
RECURSIVE scanstring(_, _, _)
scanstring(s, p, acc) ==
    IF p > Len(s) THEN ParseError
    ELSE IF s[p] = QUOTE THEN [ok |-> TRUE, val |-> acc, next |-> p + 1]
    ELSE IF s[p] \in {NEWLINE, "\t", "\r", "\f"} THEN ParseError
    ELSE IF s[p] = BACKSLASH
         THEN IF p + 1 > Len(s) \/ s[p + 1] \notin {QUOTE, BACKSLASH, SEP, "n", "t", "r", "f", "b"}
              THEN ParseError
              ELSE scanstring(s, p + 2, Append(acc, Unescape(s[p + 1])))
         ELSE scanstring(s, p + 1, Append(acc, s[p]))

ParseString(s, p) ==
    IF p <= Len(s) /\ s[p] = QUOTE THEN scanstring(s, p + 1, <<>>)
    ELSE ParseError

\* json.decoder.JSONObject after the opening brace: the members, each
\* assigned into the dict being built.
RECURSIVE ParseMembers(_, _, _)
ParseMembers(s, p, d) ==
    LET key == ParseString(s, p) IN
    IF ~key.ok THEN ParseError
    ELSE LET colon == SkipWs(s, key.next) IN
         IF colon > Len(s) \/ s[colon] # ":" THEN ParseError
         ELSE LET value == ParseString(s, SkipWs(s, colon + 1)) IN
              IF ~value.ok THEN ParseError
              ELSE LET d2 == DictSet(d, key.val, value.val)
                       q == SkipWs(s, value.next)
                   IN  IF q > Len(s) THEN ParseError
                       ELSE IF s[q] = "}" THEN [ok |-> TRUE, val |-> d2, next |-> q + 1]
                       ELSE IF s[q] = "," THEN ParseMembers(s, SkipWs(s, q + 1), d2)
                       ELSE ParseError

json_load(s) ==
    LET p == SkipWs(s, 1) IN
    IF p > Len(s) \/ s[p] # "{" THEN [ok |-> FALSE, val |-> <<>>]
    ELSE LET q == SkipWs(s, p + 1)
             obj == IF q <= Len(s) /\ s[q] = "}"
                    THEN [ok |-> TRUE, val |-> <<>>, next |-> q + 1]
                    ELSE ParseMembers(s, q, <<>>)
         IN  IF obj.ok /\ SkipWs(s, obj.next) > Len(s)
             THEN [ok |-> TRUE, val |-> obj.val]
             ELSE [ok |-> FALSE, val |-> <<>>]

(***************************************************************************)
(* State.                                                                  *)
(***************************************************************************)
VARIABLES
    constructed,          \* BatchOCR.__init__ has run
    tesseract_available,  \* self.tesseract_available
    probes,               \* calls of pytesseract.get_tesseract_version so far
    probe,                \* how the call made by __init__ ended
    pc,                   \* position of the caller inside process_batch
    image_paths,          \* process_batch: the argument image_paths
    callback,             \* process_batch: TRUE when a callback was given
    i,                    \* process_batch: the loop index
    results,              \* process_batch: the dict object `results` refers to
    log,                  \* callback invocations and recognition attempts of
                          \* the running invocation, in the order they happen
    heap,                 \* the dict objects created so far, by identity
    calls,                \* the finished process_batch invocations
    file,                 \* content of the writable destination
    last_save,            \* the last save_to_json call and what it returned
    \* OCRApplication (src/gui.py)
    selected_files,       \* content of the list self.selected_files refers to
    file_list,            \* rows of the listbox self.file_list
    output_path,          \* self.output_path
    display_output_var,   \* self.display_output_var
    controls,             \* TRUE when the widgets _set_ui_state sets, the
                          \* output button apart, are in state NORMAL
    output_btn,           \* TRUE when self.output_btn is in state NORMAL
    ocr_processor,        \* the BatchOCR self.ocr_processor refers to
    threads,              \* the threads _process_images has started
    after_queue,          \* callbacks scheduled with root.after(0, ...)
    ocr_output_text       \* content of the text widget self.ocr_output_text

gui == <<selected_files, file_list, output_path, display_output_var, controls,
         output_btn, ocr_processor, threads, after_queue, ocr_output_text>>

vars == <<constructed, tesseract_available, probes, probe, pc, image_paths, callback,
          i, results, log, heap, calls, file, last_save, gui>>

adapter == <<constructed, tesseract_available, probes, probe>>
locals == <<image_paths, callback, i, results, log>>
disk == <<file, last_save>>

NoSave == [count |-> 0, results |-> <<>>, dest |-> "", written |-> NoFile,
           ret |-> FALSE, raised |-> FALSE]

\* Sequences over S of length at most n.
RECURSIVE SeqsUpTo(_, _)
SeqsUpTo(S, n) ==
    IF n = 0 THEN { <<>> }
    ELSE LET shorter == SeqsUpTo(S, n - 1) IN
         shorter \cup { Append(s, x) : s \in {t \in shorter : Len(t) = n - 1}, x \in S }

RECURSIVE SubmittedIn(_)
SubmittedIn(cs) ==
    IF cs = <<>> THEN 0
    ELSE Len(Head(cs).image_paths) + SubmittedIn(Tail(cs))

total == Len(image_paths)

\* The work done so far, the running invocation included.
Work ==
    Len(calls) + SubmittedIn(calls) + last_save.count
    + (IF pc = "idle" THEN 0 ELSE 1 + total)

\* self.output_path = None
None == "None"

\* OCRApplication.__init__ with an engine that the probe found available
\* or not.
GuiInit(available) ==
    /\ selected_files = <<>>
    /\ file_list = <<>>
    /\ output_path = None
    /\ display_output_var = FALSE
    /\ controls = TRUE
    /\ output_btn = TRUE
    /\ ocr_processor = [tesseract_available |-> available]
    /\ threads = <<>>
    /\ after_queue = <<>>
    /\ ocr_output_text = <<>>

CoreInit ==
    /\ constructed = FALSE
    /\ tesseract_available = FALSE
    /\ probes = 0
    /\ probe = "none"
    /\ pc = "idle"
    /\ image_paths = <<>>
    /\ callback = FALSE
    /\ i = 0
    /\ results = 0
    /\ log = <<>>
    /\ heap = <<>>
    /\ calls = <<>>
    /\ file = NoFile
    /\ last_save = NoSave

\* A BatchOCR used on its own, without the application around it.
Init == CoreInit /\ GuiInit(FALSE)

(***************************************************************************)
(* BatchOCR.__init__: one call of get_tesseract_version inside try/except. *)
(* The engine location chosen before it (the argument, or the first        *)
(* existing default path on Windows) only decides how the probe ends, and  *)
(* the probe may end either way here.                                      *)
(***************************************************************************)
\* Mutant of ProbeFlag: the except branch leaves the flag true.
ProbeFlag_AlwaysTrue(outcome) == TRUE

\* The flag __init__ records for the outcome of the probe.
ProbeFlag(outcome) == outcome = "version"

BatchOCR_init ==
    /\ ~constructed
    /\ \E outcome \in {"version", "exception"} :
          /\ probe' = outcome
          /\ tesseract_available' = ProbeFlag(outcome)
    /\ probes' = probes + 1
    /\ constructed' = TRUE
    /\ UNCHANGED <<pc, locals, heap, calls, disk, gui>>

(***************************************************************************)
(* BatchOCR.process_batch, one step per position in its body.              *)
(***************************************************************************)
\* Mutant of NewDict: one dict kept across invocations (a mutable default or
\* an attribute that is never reset).
NewDict_Reused(h) ==
    IF h = <<>> THEN [heap |-> <<<<>>>>, ref |-> 1] ELSE [heap |-> h, ref |-> 1]

\* results = {}: a fresh, empty dict object.
NewDict(h) == [heap |-> Append(h, <<>>), ref |-> Len(h) + 1]

process_batch_call ==
    /\ constructed
    /\ pc = "idle"
    /\ Work < MaxWork
    /\ \E paths \in SeqsUpTo(Paths, MaxWork - Work - 1), cb \in BOOLEAN :
          /\ image_paths' = paths
          /\ callback' = cb
    /\ heap' = NewDict(heap).heap
    /\ results' = NewDict(heap).ref
    /\ i' = 0
    /\ log' = <<>>
    /\ pc' = "loop"
    /\ UNCHANGED <<adapter, calls, disk, gui>>

\* Mutant of ProgressEvent: the callback gets the 1-based position.
ProgressEvent_OneBased(index, n, path) ==
    [kind |-> "progress", index |-> index + 1, total |-> n,
     name |-> basename(path), out |-> <<>>]

ProgressEvent(index, n, path) ==
    [kind |-> "progress", index |-> index, total |-> n,
     name |-> basename(path), out |-> <<>>]

Attempt(index, n, path, out) ==
    [kind |-> "attempt", index |-> index, total |-> n,
     name |-> path, out |-> out]

\* for i, path in enumerate(image_paths): if callback: callback(...)
loop_head ==
    /\ pc = "loop"
    /\ i < total
    /\ log' = IF callback
              THEN Append(log, ProgressEvent(i, total, image_paths[i + 1]))
              ELSE log
    /\ pc' = "process_image"
    /\ UNCHANGED <<adapter, image_paths, callback, i, results, heap, calls, disk, gui>>

\* Mutant of ImageText: the recognized text is returned without strip().
ImageText_NoStrip(out) == IF out = Fail THEN <<>> ELSE out

\* What process_image returns for an outcome of Image.open/image_to_string.
ImageText(out) == IF out = Fail THEN <<>> ELSE strip(out)

\* Mutant of Finished: `return results or None`, no mapping for an empty one.
Finished_NoneWhenEmpty(value, raised) ==
    [image_paths |-> image_paths,
     result |-> IF raised \/ value = <<>> THEN 0 ELSE results, value |-> value,
     raised |-> raised]

\* What the caller of a finished invocation holds: the dict object returned
\* (0 when an exception left process_batch) and its content at that moment.
Finished(value, raised) ==
    [image_paths |-> image_paths,
     result |-> IF raised THEN 0 ELSE results, value |-> value,
     raised |-> raised]

\* text = self.process_image(path); results[path] = text
process_image ==
    /\ pc = "process_image"
    /\ IF ~tesseract_available
       THEN \* RuntimeError leaves process_image and process_batch
            /\ calls' = Append(calls, Finished(<<>>, TRUE))
            /\ pc' = "idle"
            /\ image_paths' = <<>>
            /\ callback' = FALSE
            /\ i' = 0
            /\ results' = 0
            /\ log' = <<>>
            /\ UNCHANGED heap
       ELSE \E out \in Outcomes :
            LET path == image_paths[i + 1] IN
            /\ heap' = [heap EXCEPT ![results] = DictSet(@, path, ImageText(out))]
            /\ log' = Append(log, Attempt(i, total, path, out))
            /\ i' = i + 1
            /\ pc' = "loop"
            /\ UNCHANGED <<image_paths, callback, results, calls>>
    /\ UNCHANGED <<adapter, disk, gui>>

\* return results
process_batch_return ==
    /\ pc = "loop"
    /\ i = total
    /\ calls' = Append(calls, Finished(heap[results], FALSE))
    /\ pc' = "idle"
    /\ image_paths' = <<>>
    /\ callback' = FALSE
    /\ i' = 0
    /\ results' = 0
    /\ log' = <<>>
    /\ UNCHANGED <<adapter, heap, disk, gui>>

(***************************************************************************)
(* BatchOCR.save_to_json.                                                  *)
(***************************************************************************)
\* Mutant of FormatInto: the first reference of a basename is kept.
RECURSIVE FormatInto_FirstWins(_, _)
FormatInto_FirstWins(acc, d) ==
    IF d = <<>> THEN acc
    ELSE FormatInto_FirstWins(
             IF DictHas(acc, basename(Head(d)[1])) THEN acc
             ELSE Append(acc, <<basename(Head(d)[1]), Head(d)[2]>>),
             Tail(d))

\* {os.path.basename(k): v for k, v in results.items()}
RECURSIVE FormatInto(_, _)
FormatInto(acc, d) ==
    IF d = <<>> THEN acc
    ELSE FormatInto(DictSet(acc, basename(Head(d)[1]), Head(d)[2]), Tail(d))

formatted_results(d) == FormatInto(<<>>, d)

\* Mutant of SaveReturn: true is returned from the except branch as well.
SaveReturn_AlwaysTrue(fault) == TRUE

\* The value save_to_json returns when the try block ends with `fault`.
SaveReturn(fault) == fault = "none"

\* What the call has put into the destination when the try block ends with
\* `fault`: nothing when open() raised, the chunks of the write calls before
\* the one that raised when a write raised, every chunk otherwise.
Written(chunks, fault) ==
    IF fault = "open" THEN {NoFile}
    ELSE IF fault = "write"
         THEN { WrittenChunks(chunks, n) : n \in 0..(Len(chunks) - 1) }
    ELSE {WrittenChunks(chunks, Len(chunks))}

save_to_json ==
    /\ constructed
    /\ pc = "idle"
    /\ Work < MaxWork
    /\ \E ref \in 1..Len(heap), dest \in Destinations,
          fault \in {"none", "open", "write"} :
          LET d == heap[ref]
              chunks == iterencode(formatted_results(d))
          IN  /\ ~Writable(dest) => fault = "open"
              /\ \E w \in Written(chunks, fault) :
                    /\ file' = IF w = NoFile THEN file ELSE w
                    /\ last_save' = [count |-> last_save.count + 1,
                                     results |-> d, dest |-> dest,
                                     written |-> w, ret |-> SaveReturn(fault),
                                     raised |-> FALSE]
    /\ UNCHANGED <<adapter, pc, locals, heap, calls, gui>>

Next ==
    \/ BatchOCR_init
    \/ process_batch_call
    \/ loop_head
    \/ process_image
    \/ process_batch_return
    \/ save_to_json

Spec == Init /\ [][Next]_vars

(***************************************************************************)
(* OCRApplication (src/gui.py): the window, its handlers, the background   *)
(* thread of _run_processing and the callbacks handed to root.after.       *)
(***************************************************************************)
\* The runs one window is followed through.
MaxRuns == 2

\* Image files the user can pick or drop, the name NamedTemporaryFile gives a
\* pasted image, a file without an image extension, and the folders.
GuiPaths == { <<"d", SEP, "x">>, <<"e", SEP, "x">> }
TempPaths == { <<"t">> }
NonImages == { <<"e", SEP, "n">> }
Files == GuiPaths \cup NonImages
Folders == { <<"d">>, <<"e">> }

\* What Image.open/image_to_string give for the images of a run: one text
\* to strip.  A run that fails is one on an unavailable engine.
GuiOutcomes == { <<SPACE, "a", NEWLINE>> }

\* file.lower().endswith(image_extensions)
has_image_extension(p) == p \in GuiPaths \cup TempPaths

\* os.path.isdir(file_path)
isdir(p) == p \in Folders

\* The files os.walk(folder) yields, joined to their directory, in any of
\* the orders the file system may list them.
Under(folder) ==
    { p \in Files : /\ Len(p) > Len(folder) + 1
                    /\ SubSeq(p, 1, Len(folder) + 1) = folder \o <<SEP>> }
walk(folder) ==
    { w \in [1..Cardinality(Under(folder)) -> Under(folder)] :
        Range(w) = Under(folder) }

\* Mutant of AddPath: the path is appended without the membership test.
AddPath_NoMembershipTest(st, p) ==
    [selected_files |-> Append(st.selected_files, p),
     file_list |-> Append(st.file_list, basename(p))]

\* if file not in self.selected_files: append it, insert its basename
AddPath(st, p) ==
    IF p \in Range(st.selected_files) THEN st
    ELSE [selected_files |-> Append(st.selected_files, p),
          file_list |-> Append(st.file_list, basename(p))]

\* for file in files: ...
RECURSIVE AddAll(_, _)
AddAll(st, files) ==
    IF files = <<>> THEN st
    ELSE AddAll(AddPath(st, Head(files)), Tail(files))

\* for file in files: if file.lower().endswith(image_extensions): ...
RECURSIVE AddImages(_, _)
AddImages(st, files) ==
    IF files = <<>> THEN st
    ELSE AddImages(IF has_image_extension(Head(files))
                   THEN AddPath(st, Head(files)) ELSE st,
                   Tail(files))

\* What the dialogs and a drop can deliver.
FileChoices == SeqsUpTo(GuiPaths, 2) \ {<<>>}
DropChoices ==
    SeqsUpTo({ <<"d", SEP, "x">>, <<"e", SEP, "n">>, <<"e">> }, 2) \ {<<>>}
WalkChoices ==
    { walks \in [Folders -> UNION { walk(f) : f \in Folders }] :
        \A f \in Folders : walks[f] \in walk(f) }

Selection == [selected_files |-> selected_files, file_list |-> file_list]

\* A thread that has not yet read anything, and one that has ended.
NewThread ==
    [pc |-> "start", current |-> FALSE, available |-> FALSE, shared |-> FALSE,
     image_paths |-> <<>>, total |-> 0, i |-> 0, results |-> <<>>,
     events |-> <<>>, e |-> FALSE]
DoneThread == [NewThread EXCEPT !.pc = "done"]

\* The list self.selected_files refers to gets the content `sel`; a thread
\* iterating that same list object sees the change.
ListBecomes(sel) ==
    [k \in 1..Len(threads) |->
        IF threads[k].shared THEN [threads[k] EXCEPT !.image_paths = sel]
        ELSE threads[k]]

\* self.selected_files = []: a new list object, no thread holds it.
ListReplaced ==
    [k \in 1..Len(threads) |-> [threads[k] EXCEPT !.shared = FALSE]]

\* self.ocr_processor = BatchOCR(...): a new adapter, no thread runs on it.
AdapterReplaced ==
    [k \in 1..Len(threads) |-> [threads[k] EXCEPT !.current = FALSE]]

core == <<adapter, pc, locals, heap, calls, last_save>>

\* OCRApplication() in main(): the BatchOCR it builds probes the engine.
InitGui ==
    /\ CoreInit
    /\ \E outcome \in {"version", "exception"} : GuiInit(ProbeFlag(outcome))

\* Mutant of UiState: the widgets are left in state NORMAL during a run.
UiState_AlwaysNormal(enabled) == TRUE

\* The state a widget is put in by _set_ui_state(enabled).
UiState(enabled) == enabled

\* _set_ui_state
_set_ui_state(enabled) ==
    /\ controls' = UiState(enabled)
    /\ output_btn' = UiState(enabled)

\* Add Files button
_add_files ==
    /\ controls
    /\ \E files \in FileChoices :
          LET st == AddAll(Selection, files) IN
          /\ selected_files' = st.selected_files
          /\ file_list' = st.file_list
          /\ threads' = ListBecomes(st.selected_files)
    /\ UNCHANGED <<core, file, output_path, display_output_var, controls,
                   output_btn, ocr_processor, after_queue, ocr_output_text>>

\* Add Folder button
_add_folder ==
    /\ controls
    /\ \E folder \in Folders : \E files \in walk(folder) :
          LET st == AddImages(Selection, files) IN
          /\ selected_files' = st.selected_files
          /\ file_list' = st.file_list
          /\ threads' = ListBecomes(st.selected_files)
    /\ UNCHANGED <<core, file, output_path, display_output_var, controls,
                   output_btn, ocr_processor, after_queue, ocr_output_text>>

\* Clear Selection button
_clear_selection ==
    /\ controls
    /\ selected_files' = <<>>
    /\ file_list' = <<>>
    /\ threads' = ListReplaced
    /\ UNCHANGED <<core, file, output_path, display_output_var, controls,
                   output_btn, ocr_processor, after_queue, ocr_output_text>>

\* Paste Image button, or <Control-v>/<Command-v> on the root window, with an
\* image in the clipboard; the temporary file is a new one.
_paste_image ==
    /\ \E via \in {"button", "key"}, img_path \in TempPaths :
          /\ via = "button" => controls
          /\ img_path \notin Range(selected_files)
          /\ \A k \in 1..Len(threads) : img_path \notin Range(threads[k].image_paths)
          /\ LET st == AddPath(Selection, img_path) IN
             /\ selected_files' = st.selected_files
             /\ file_list' = st.file_list
             /\ threads' = ListBecomes(st.selected_files)
    /\ UNCHANGED <<core, file, output_path, display_output_var, controls,
                   output_btn, ocr_processor, after_queue, ocr_output_text>>

\* for file_path in file_paths: a folder, an image or another file
RECURSIVE DropAll(_, _, _)
DropAll(st, file_paths, walks) ==
    IF file_paths = <<>> THEN st
    ELSE LET file_path == Head(file_paths) IN
         DropAll(IF isdir(file_path)
                 THEN AddImages(st, walks[file_path])
                 ELSE IF has_image_extension(file_path)
                      THEN AddPath(st, file_path)
                      ELSE st,
                 Tail(file_paths), walks)

\* <<Drop>> on the listbox
_drop_files ==
    /\ \E file_paths \in DropChoices, walks \in WalkChoices :
          /\ LET st == DropAll(Selection, file_paths, walks) IN
             /\ st # Selection
             /\ selected_files' = st.selected_files
             /\ file_list' = st.file_list
             /\ threads' = ListBecomes(st.selected_files)
    /\ UNCHANGED <<core, file, output_path, display_output_var, controls,
                   output_btn, ocr_processor, after_queue, ocr_output_text>>

\* A click on the "Display output in GUI" checkbox: the variable flips, then
\* _toggle_output_mode runs.
_toggle_output_mode ==
    /\ controls
    /\ display_output_var' = ~display_output_var
    /\ IF display_output_var'
       THEN output_btn' = FALSE /\ output_path' = None
       ELSE output_btn' = TRUE /\ UNCHANGED output_path
    /\ UNCHANGED <<core, file, selected_files, file_list, controls,
                   ocr_processor, threads, after_queue, ocr_output_text>>

\* Select Output File button, a file chosen in the dialog
_select_output ==
    /\ output_btn
    /\ \E chosen \in Destinations : output_path' = chosen
    /\ display_output_var' = FALSE
    /\ output_btn' = TRUE
    /\ UNCHANGED <<core, file, selected_files, file_list, controls,
                   ocr_processor, threads, after_queue, ocr_output_text>>

\* Set Tesseract Path button, a file chosen in the dialog
_set_tesseract_path ==
    /\ controls
    /\ \E outcome \in {"version", "exception"} :
          ocr_processor' = [tesseract_available |-> ProbeFlag(outcome)]
    /\ threads' = AdapterReplaced
    /\ UNCHANGED <<core, file, selected_files, file_list, output_path,
                   display_output_var, controls, output_btn, after_queue,
                   ocr_output_text>>

\* Mutant of MayStart: the test of the output location is left out.
MayStart_NoOutputTest == selected_files # <<>>

\* The two tests _process_images makes before it starts a thread.
MayStart ==
    /\ selected_files # <<>>
    /\ ~(output_path = None /\ ~display_output_var)

\* Process Images button
_process_images ==
    /\ controls
    /\ Len(threads) < MaxRuns
    /\ MayStart
    /\ _set_ui_state(FALSE)
    /\ threads' = Append(threads, NewThread)
    /\ UNCHANGED <<core, file, selected_files, file_list, output_path,
                   display_output_var, ocr_processor, after_queue,
                   ocr_output_text>>

\* self.ocr_processor.process_batch(self.selected_files, ...) is entered:
\* results = {}, total = len(image_paths)
run_process_batch(k) ==
    /\ threads[k].pc = "start"
    /\ threads' = [threads EXCEPT ![k] =
          [@ EXCEPT !.pc = "loop", !.current = TRUE,
                    !.available = ocr_processor.tesseract_available,
                    !.shared = TRUE, !.image_paths = selected_files,
                    !.total = Len(selected_files)]]
    /\ UNCHANGED <<core, file, selected_files, file_list, output_path,
                   display_output_var, controls, output_btn, ocr_processor,
                   after_queue, ocr_output_text>>

\* The iterator of the for loop yields the next item of the list as it is
\* now; callback(i, total, os.path.basename(path))
run_loop_head(k) ==
    LET t == threads[k] IN
    /\ t.pc = "loop"
    /\ t.i < Len(t.image_paths)
    /\ threads' = [threads EXCEPT ![k] =
          [@ EXCEPT !.pc = "process_image",
                    !.events = Append(@, ProgressEvent(t.i, t.total,
                                                       t.image_paths[t.i + 1]))]]
    /\ UNCHANGED <<core, file, selected_files, file_list, output_path,
                   display_output_var, controls, output_btn, ocr_processor,
                   after_queue, ocr_output_text>>

\* text = self.process_image(path); results[path] = text
run_process_image(k) ==
    LET t == threads[k] IN
    /\ t.pc = "process_image"
    /\ IF ~t.available
       THEN \* RuntimeError leaves process_batch, its frame is gone
            threads' = [threads EXCEPT ![k] =
               [DoneThread EXCEPT !.pc = "except", !.e = TRUE]]
       ELSE \E out \in GuiOutcomes :
            threads' = [threads EXCEPT ![k] =
               [@ EXCEPT !.pc = "loop", !.i = t.i + 1,
                         !.results = DictSet(@, t.image_paths[t.i + 1],
                                             ImageText(out))]]
    /\ UNCHANGED <<core, file, selected_files, file_list, output_path,
                   display_output_var, controls, output_btn, ocr_processor,
                   after_queue, ocr_output_text>>

\* The iterator is exhausted: return results; the frame of process_batch is
\* gone, the mapping is what _run_processing holds.
run_process_batch_return(k) ==
    LET t == threads[k] IN
    /\ t.pc = "loop"
    /\ t.i >= Len(t.image_paths)
    /\ threads' = [threads EXCEPT ![k] =
          [DoneThread EXCEPT !.pc = "returned", !.results = t.results]]
    /\ UNCHANGED <<core, file, selected_files, file_list, output_path,
                   display_output_var, controls, output_btn, ocr_processor,
                   after_queue, ocr_output_text>>

\* Concatenation of the chunks json.dumps joins.
RECURSIVE Joined(_)
Joined(chunks) ==
    IF chunks = <<>> THEN <<>> ELSE Head(chunks) \o Joined(Tail(chunks))

\* The callbacks the thread hands to root.after.
DisplayCallback(text) == [kind |-> "display", thread |-> 0, text |-> text, success |-> TRUE]
CompleteCallback(k, success) == [kind |-> "complete", thread |-> k, text |-> <<>>, success |-> success]
ErrorCallback(k) == [kind |-> "error", thread |-> k, text |-> <<>>, success |-> FALSE]

\* if self.display_output_var.get(): the text and the completion are
\* scheduled
run_display(k) ==
    LET t == threads[k] IN
    /\ t.pc = "returned"
    /\ display_output_var
    /\ after_queue' = after_queue \o
          << DisplayCallback(Joined(iterencode(formatted_results(t.results)))),
             CompleteCallback(k, TRUE) >>
    /\ threads' = [threads EXCEPT ![k] = DoneThread]
    /\ UNCHANGED <<core, file, selected_files, file_list, output_path,
                   display_output_var, controls, output_btn, ocr_processor,
                   ocr_output_text>>

\* else: success = self.ocr_processor.save_to_json(results, self.output_path)
\* and the completion is scheduled
run_save(k) ==
    LET t == threads[k] IN
    /\ t.pc = "returned"
    /\ ~display_output_var
    /\ \E fault \in {"none", "open"} :
          /\ ~Writable(output_path) => fault = "open"
          /\ \E w \in Written(iterencode(formatted_results(t.results)), fault) :
                file' = IF w = NoFile THEN file ELSE w
          /\ after_queue' = Append(after_queue, CompleteCallback(k, SaveReturn(fault)))
    /\ threads' = [threads EXCEPT ![k] = DoneThread]
    /\ UNCHANGED <<core, selected_files, file_list, output_path,
                   display_output_var, controls, output_btn, ocr_processor,
                   ocr_output_text>>

\* except Exception as e: self.root.after(0, lambda: ...str(e))
run_except(k) ==
    /\ threads[k].pc = "except"
    /\ after_queue' = Append(after_queue, ErrorCallback(k))
    /\ threads' = [threads EXCEPT ![k] = [@ EXCEPT !.pc = "leave"]]
    /\ UNCHANGED <<core, file, selected_files, file_list, output_path,
                   display_output_var, controls, output_btn, ocr_processor,
                   ocr_output_text>>

\* The except clause is left: its name e is unbound, the thread ends.
run_leave_except(k) ==
    /\ threads[k].pc = "leave"
    /\ threads' = [threads EXCEPT ![k] = DoneThread]
    /\ UNCHANGED <<core, file, selected_files, file_list, output_path,
                   display_output_var, controls, output_btn, ocr_processor,
                   after_queue, ocr_output_text>>

\* The main loop runs the callback scheduled first.
_display_ocr_output ==
    /\ after_queue # <<>>
    /\ Head(after_queue).kind = "display"
    /\ ocr_output_text' = Head(after_queue).text
    /\ after_queue' = Tail(after_queue)
    /\ UNCHANGED <<core, file, selected_files, file_list, output_path,
                   display_output_var, controls, output_btn, ocr_processor,
                   threads>>

_processing_complete ==
    /\ after_queue # <<>>
    /\ Head(after_queue).kind = "complete"
    /\ _set_ui_state(TRUE)
    /\ after_queue' = Tail(after_queue)
    /\ UNCHANGED <<core, file, selected_files, file_list, output_path,
                   display_output_var, ocr_processor, threads,
                   ocr_output_text>>

\* lambda: self._processing_error(str(e)), run while e is still bound
_processing_error ==
    /\ after_queue # <<>>
    /\ Head(after_queue).kind = "error"
    /\ threads[Head(after_queue).thread].e
    /\ _set_ui_state(TRUE)
    /\ after_queue' = Tail(after_queue)
    /\ UNCHANGED <<core, file, selected_files, file_list, output_path,
                   display_output_var, ocr_processor, threads,
                   ocr_output_text>>

\* The same lambda run after the except clause was left: evaluating e raises
\* NameError, _processing_error is not called.
error_callback_raises ==
    /\ after_queue # <<>>
    /\ Head(after_queue).kind = "error"
    /\ ~threads[Head(after_queue).thread].e
    /\ after_queue' = Tail(after_queue)
    /\ UNCHANGED <<core, file, selected_files, file_list, output_path,
                   display_output_var, controls, output_btn, ocr_processor,
                   threads, ocr_output_text>>

NextGui ==
    \/ _add_folder
    \/ _add_files
    \/ _clear_selection
    \/ _paste_image
    \/ _drop_files
    \/ _toggle_output_mode
    \/ _select_output
    \/ _set_tesseract_path
    \/ _process_images
    \/ \E k \in 1..Len(threads) : run_process_batch(k)
    \/ \E k \in 1..Len(threads) : run_loop_head(k)
    \/ \E k \in 1..Len(threads) : run_process_image(k)
    \/ \E k \in 1..Len(threads) : run_process_batch_return(k)
    \/ \E k \in 1..Len(threads) : run_display(k)
    \/ \E k \in 1..Len(threads) : run_save(k)
    \/ \E k \in 1..Len(threads) : run_except(k)
    \/ \E k \in 1..Len(threads) : run_leave_except(k)
    \/ _display_ocr_output
    \/ _processing_complete
    \/ _processing_error
    \/ error_callback_raises

SpecGui == InitGui /\ [][NextGui]_vars

(***************************************************************************)
(* Vocabulary of the properties, stated without the operators above.       *)
(***************************************************************************)
IsProgress(e) == e.kind = "progress"
IsAttempt(e) == e.kind = "attempt"

\* The running invocation has attempted every image and is about to return.
AboutToReturn == pc = "loop" /\ i = total

\* b is the last component of path p.
IsBasenameOf(b, p) ==
    /\ Len(b) <= Len(p)
    /\ b = SubSeq(p, Len(p) - Len(b) + 1, Len(p))
    /\ \A k \in 1..Len(b) : b[k] # SEP
    /\ Len(b) < Len(p) => p[Len(p) - Len(b)] = SEP

\* t is s without its leading and trailing whitespace.
IsTrimOf(t, s) ==
    \E a \in 0..Len(s), b \in 0..Len(s) :
        /\ a + b <= Len(s)
        /\ t = SubSeq(s, a + 1, Len(s) - b)
        /\ \A k \in 1..a : s[k] \in Whitespace
        /\ \A k \in (Len(s) - b + 1)..Len(s) : s[k] \in Whitespace
        /\ t # <<>> => t[1] \notin Whitespace /\ t[Len(t)] \notin Whitespace

\* v is the result owed to an attempt that ended with `out`.
IsResultOf(v, out) == IF out = Fail THEN v = <<>> ELSE IsTrimOf(v, out)

\* The attempts of the running invocation, in order.
Attempts == SelectSeq(log, IsAttempt)
\* The callback invocations of the running invocation, in order.
Events == SelectSeq(log, IsProgress)

(***************************************************************************)
(* C1.  With the availability flag false, process_batch never invokes the  *)
(* callback, and an invocation with images to process fails with the       *)
(* engine-unavailable error and returns no mapping.  (The empty input,     *)
(* which C4 lets return normally, is not needed to refute the statement.)  *)
(***************************************************************************)
C1_UnavailableProcessesNothing ==
    (constructed /\ ~tesseract_available) =>
        /\ Events = <<>>
        /\ \A k \in 1..Len(calls) :
              calls[k].image_paths # <<>> =>
                  calls[k].raised /\ calls[k].result = 0

(***************************************************************************)
(* C2 as stated.  With the engine available process_batch does not raise,  *)
(* the mapping has an entry for every input reference, the entry of every  *)
(* failing item is the empty string and the entry of every other item is   *)
(* its recognized text, trimmed.                                           *)
(***************************************************************************)
C2_EveryItemKeepsItsOwnResult ==
    /\ tesseract_available => \A k \in 1..Len(calls) : ~calls[k].raised
    /\ (tesseract_available /\ AboutToReturn) =>
          \A j \in 1..Len(Attempts) :
              /\ DictHas(heap[results], Attempts[j].name)
              /\ IsResultOf(DictGet(heap[results], Attempts[j].name), Attempts[j].out)

\* Position j holds the last occurrence of its reference among the attempts.
IsLastOccurrence(j) ==
    \A m \in (j + 1)..Len(Attempts) : Attempts[m].name # Attempts[j].name

(***************************************************************************)
(* C2 amended.  With the engine available process_batch does not raise,    *)
(* the mapping has an entry for every distinct input reference and no      *)
(* other, and the entry of a reference is the result of its last           *)
(* occurrence in the input: the empty string when that attempt failed,     *)
(* its recognized text trimmed otherwise.                                  *)
(***************************************************************************)
C2_FailuresBecomeEmptyStrings ==
    /\ tesseract_available => \A k \in 1..Len(calls) : ~calls[k].raised
    /\ (tesseract_available /\ AboutToReturn) =>
          /\ Len(Attempts) = total
          /\ Range(DictKeys(heap[results])) = Range(image_paths)
          /\ \A j \in 1..Len(Attempts) :
                /\ Attempts[j].name = image_paths[j]
                /\ IsLastOccurrence(j) =>
                      IsResultOf(DictGet(heap[results], Attempts[j].name),
                                 Attempts[j].out)

\* A batch ends with one failed item and one item whose text was trimmed.
C2_Witness ==
    /\ tesseract_available
    /\ AboutToReturn
    /\ \E j, m \in 1..Len(Attempts) :
          /\ Attempts[j].name # Attempts[m].name
          /\ Attempts[j].out = Fail
          /\ Attempts[m].out = <<SPACE, "a", NEWLINE>>
          /\ DictGet(heap[results], Attempts[j].name) = <<>>
          /\ DictGet(heap[results], Attempts[m].name) = <<"a">>

(***************************************************************************)
(* C3.  With the engine available and a callback given, the log of the     *)
(* running invocation alternates event 0, attempt 0, event 1, attempt 1,   *)
(* ...: the event of item j carries index j, total n and the basename of   *)
(* image j, comes after the attempt of item j-1 and before the attempt of  *)
(* item j, whatever the attempts' outcomes; n events exist at the return.  *)
(***************************************************************************)
C3_ProgressBeforeEachAttempt ==
    (tesseract_available /\ callback /\ pc # "idle") =>
        /\ \A p \in 1..Len(log) :
              IF p % 2 = 1
              THEN /\ IsProgress(log[p])
                   /\ log[p].index = (p - 1) \div 2
                   /\ log[p].total = total
                   /\ IsBasenameOf(log[p].name, image_paths[log[p].index + 1])
              ELSE /\ IsAttempt(log[p])
                   /\ log[p].index = (p \div 2) - 1
                   /\ log[p].name = image_paths[log[p].index + 1]
        /\ pc = "loop" => Len(log) = 2 * i
        /\ pc = "process_image" => Len(log) = 2 * i + 1
        /\ AboutToReturn => Len(Events) = total

\* A batch of two images ends after a failed first attempt: both events
\* were emitted.
C3_Witness ==
    /\ tesseract_available /\ callback /\ AboutToReturn
    /\ total >= 2
    /\ Attempts[1].out = Fail
    /\ Len(Events) = total
    /\ Events[2].index = 1

(***************************************************************************)
(* C4.  For an empty input sequence process_batch emits no progress event, *)
(* raises nothing and returns an empty mapping.                            *)
(***************************************************************************)
C4_EmptyInputEmptyResult ==
    /\ (pc # "idle" /\ total = 0) =>
          /\ pc = "loop"
          /\ log = <<>>
          /\ heap[results] = <<>>
    /\ \A k \in 1..Len(calls) :
          calls[k].image_paths = <<>> =>
              /\ ~calls[k].raised
              /\ calls[k].result # 0
              /\ calls[k].value = <<>>

\* An invocation with an empty input has returned after an earlier one
\* with a non-empty input.
C4_Witness ==
    /\ Len(calls) >= 2
    /\ calls[1].image_paths # <<>>
    /\ calls[2].image_paths = <<>>
    /\ ~calls[2].raised

\* The distinct elements of s in order of first occurrence.
RECURSIVE FirstOccurrences(_)
FirstOccurrences(s) ==
    IF s = <<>> THEN <<>>
    ELSE LET front == FirstOccurrences(SubSeq(s, 1, Len(s) - 1))
             x == s[Len(s)]
         IN  IF x \in Range(front) THEN front ELSE Append(front, x)

(***************************************************************************)
(* C5.  The mapping about to be returned has exactly one entry per         *)
(* distinct input reference, its keys in order of first occurrence; the    *)
(* entry of a reference holds the text recorded for its last occurrence;   *)
(* with a callback, an event was emitted for every occurrence.             *)
(***************************************************************************)
C5_OneEntryPerReferenceLastWins ==
    (tesseract_available /\ AboutToReturn) =>
        /\ DictKeys(heap[results]) = FirstOccurrences(image_paths)
        /\ \A j \in 1..Len(Attempts) :
              IsLastOccurrence(j) =>
                  IsResultOf(DictGet(heap[results], image_paths[j]), Attempts[j].out)
        /\ callback => Len(Events) = Len(image_paths)

\* A reference occurs twice with different results between two others.
C5_Witness ==
    /\ tesseract_available /\ AboutToReturn /\ callback
    /\ total = 3
    /\ image_paths[1] = image_paths[3]
    /\ image_paths[2] # image_paths[1]
    /\ Attempts[1].out = Fail
    /\ Attempts[3].out = <<SPACE, "a", NEWLINE>>
    /\ Len(heap[results]) = 2
    /\ heap[results][1] = <<image_paths[1], <<"a">> >>

\* The last save_to_json call returned true for the writable destination.
Saved == last_save.count > 0 /\ last_save.ret

\* The mapping read back from the destination.
Decoded == json_load(file)

\* The positions of d whose key has the basename b.
PositionsOf(d, b) == { k \in 1..Len(d) : IsBasenameOf(b, d[k][1]) }

\* The basenames of the keys of d.
Basenames(d) == { basename(d[k][1]) : k \in 1..Len(d) }

Max(S) == CHOOSE x \in S : \A y \in S : y <= x

(***************************************************************************)
(* C6.  The output of a successful save_to_json has one key per distinct   *)
(* basename of the mapping's keys and no other key, and the value under a  *)
(* basename is the value of the latest reference in the mapping's order    *)
(* that has this basename.                                                 *)
(***************************************************************************)
C6_BasenameCollisionLastWins ==
    Saved =>
        /\ Decoded.ok
        /\ Len(Decoded.val) = Cardinality(Basenames(last_save.results))
        /\ Range(DictKeys(Decoded.val)) = Basenames(last_save.results)
        /\ \A b \in Basenames(last_save.results) :
              DictGet(Decoded.val, b) =
                  last_save.results[Max(PositionsOf(last_save.results, b))][2]

\* A mapping with d/x and e/x under different values was saved: the output
\* has the single key x with the value of e/x.
C6_Witness ==
    /\ Saved
    /\ Len(last_save.results) = 2
    /\ last_save.results[1] = << <<"d", SEP, "x">>, <<"a">> >>
    /\ last_save.results[2][1] = <<"e", SEP, "x">>
    /\ last_save.results[2][2] # <<"a">>
    /\ Len(Decoded.val) = 1
    /\ Decoded.val[1] = << <<"x">>, last_save.results[2][2] >>

\* The keys of d have pairwise distinct basenames.
DistinctBasenames(d) ==
    \A j, k \in 1..Len(d) : j # k => basename(d[j][1]) # basename(d[k][1])

(***************************************************************************)
(* C7.  When the keys of the mapping have pairwise distinct basenames,     *)
(* decoding the output of a successful save_to_json gives the mapping      *)
(* with each key replaced by its basename and each value unchanged.        *)
(***************************************************************************)
C7_SerializeRoundTrip ==
    (Saved /\ DistinctBasenames(last_save.results)) =>
        /\ Decoded.ok
        /\ Len(Decoded.val) = Len(last_save.results)
        /\ \A k \in 1..Len(last_save.results) :
              /\ IsBasenameOf(Decoded.val[k][1], last_save.results[k][1])
              /\ Decoded.val[k][2] = last_save.results[k][2]

\* A mapping with an empty value and a value holding a newline, a quote and
\* a backslash was saved and read back.
C7_Witness ==
    /\ Saved
    /\ DistinctBasenames(last_save.results)
    /\ Len(last_save.results) = 2
    /\ \E j, k \in 1..2 :
          /\ last_save.results[j][2] = <<>>
          /\ last_save.results[k][2] = <<"a", NEWLINE, QUOTE, BACKSLASH>>
    /\ Decoded.ok

(***************************************************************************)
(* C8.  save_to_json never raises; it returns true exactly when the call   *)
(* wrote the whole output, which the destination then holds, and it        *)
(* returns false for a destination that cannot be opened.                  *)
(***************************************************************************)
C8_SaveReportsByReturnValue ==
    last_save.count > 0 =>
        /\ ~last_save.raised
        /\ last_save.ret <=>
              /\ last_save.written # NoFile
              /\ json_load(last_save.written).ok
              /\ Len(json_load(last_save.written).val)
                    = Cardinality(Basenames(last_save.results))
        /\ last_save.ret => file = last_save.written
        /\ ~Writable(last_save.dest) => ~last_save.ret

\* A write failed part-way through a non-empty output: false was returned
\* and the destination holds a truncated text.
C8_Witness ==
    /\ last_save.count > 0
    /\ ~last_save.ret
    /\ Writable(last_save.dest)
    /\ last_save.results # <<>>
    /\ last_save.written # NoFile
    /\ Len(last_save.written) > 1
    /\ file = last_save.written

(***************************************************************************)
(* C9.  Constructing the adapter probes the engine exactly once and does   *)
(* not raise; the flag is true exactly when the probe answered, and no     *)
(* later process_image, process_batch or save_to_json probes again or      *)
(* changes the flag.                                                       *)
(***************************************************************************)
C9_AvailabilityProbedOnce ==
    /\ ~constructed => probes = 0 /\ probe = "none"
    /\ constructed =>
          /\ probes = 1
          /\ probe \in {"version", "exception"}
          /\ tesseract_available <=> probe = "version"

\* An available adapter has run a batch with a failed item and a save that
\* returned false.
C9_Witness ==
    /\ constructed /\ tesseract_available
    /\ Len(calls) >= 1
    /\ \E k \in 1..Len(calls) : \E j \in 1..Len(calls[k].value) :
          calls[k].value[j][2] = <<>>
    /\ last_save.count > 0 /\ ~last_save.ret

(***************************************************************************)
(* C10.  Invocations of process_batch share no batch state: every entry of *)
(* the running invocation's mapping is the result of one of this           *)
(* invocation's own attempts on that reference, every returned mapping is  *)
(* an object of its own with keys of its own input only, and it still has  *)
(* the content it had when it was returned.                                *)
(***************************************************************************)
C10_InvocationsShareNoState ==
    /\ (pc # "idle" /\ tesseract_available) =>
          /\ \A e \in 1..Len(heap[results]) :
                \E j \in 1..Len(Attempts) :
                    /\ Attempts[j].name = heap[results][e][1]
                    /\ IsResultOf(heap[results][e][2], Attempts[j].out)
          /\ \A k \in 1..Len(calls) : calls[k].result # results
    /\ \A k \in 1..Len(calls) :
          ~calls[k].raised =>
              /\ heap[calls[k].result] = calls[k].value
              /\ Range(DictKeys(calls[k].value)) \subseteq Range(calls[k].image_paths)
              /\ \A m \in 1..Len(calls) :
                    (m # k /\ ~calls[m].raised) => calls[m].result # calls[k].result

\* Two invocations with different inputs have returned different non-empty
\* mappings.
C10_Witness ==
    /\ Len(calls) = 2
    /\ ~calls[1].raised /\ ~calls[2].raised
    /\ calls[1].value # <<>> /\ calls[2].value # <<>>
    /\ Range(calls[1].image_paths) \cap Range(calls[2].image_paths) = {}
    /\ heap[calls[1].result] = calls[1].value

(***************************************************************************)
(* Vocabulary of the claims about OCRApplication.                          *)
(***************************************************************************)
Threads == 1..Len(threads)

\* A process_batch invocation of thread k is in flight.
InFlight(k) == threads[k].pc \in {"loop", "process_image"}

\* A callback of thread k that ends its run is waiting in the main loop.
Scheduled(k) ==
    \E j \in 1..Len(after_queue) :
        /\ after_queue[j].thread = k
        /\ after_queue[j].kind \in {"complete", "error"}

\* Thread k was started and neither _processing_complete nor
\* _processing_error has been reached for it.
RunPending(k) ==
    \/ threads[k].pc \in {"start", "loop", "process_image", "returned", "except"}
    \/ Scheduled(k)

(***************************************************************************)
(* C11: from the start of the background thread until _processing_complete *)
(* or _processing_error runs, the Process Images and Set Tesseract Path    *)
(* controls are disabled; at most one process_batch invocation is in       *)
(* flight, and the adapter it runs on is still the application's adapter,  *)
(* with the availability it had when the batch began.                      *)
(***************************************************************************)
C11_ControlsDisabledDuringRun ==
    /\ \A k \in Threads : RunPending(k) => ~controls
    /\ Cardinality({ k \in Threads : InFlight(k) }) <= 1
    /\ \A k \in Threads :
          InFlight(k) =>
             /\ threads[k].current
             /\ threads[k].available = ocr_processor.tesseract_available

\* A second run is in flight, past its first image, after the first run ended,
\* with the controls disabled.
C11_Witness ==
    /\ Len(threads) = 2
    /\ threads[1].pc = "done"
    /\ InFlight(2)
    /\ threads[2].i >= 1
    /\ ~controls

(***************************************************************************)
(* C12: while a batch is in flight the list handed to it is not changed by *)
(* a user action, so the list still has the length total taken when the    *)
(* batch started, every progress event carries that total and an index     *)
(* with 0 <= index < total, and a batch whose iterator is exhausted has    *)
(* emitted exactly total events.                                           *)
(***************************************************************************)
C12_ListFixedWhileInFlight ==
    \A k \in Threads :
        InFlight(k) =>
            LET t == threads[k] IN
            /\ Len(t.image_paths) = t.total
            /\ \A j \in 1..Len(t.events) :
                  /\ t.events[j].total = t.total
                  /\ 0 <= t.events[j].index
                  /\ t.events[j].index < t.total
            /\ (t.pc = "loop" /\ t.i >= Len(t.image_paths)) =>
                  Len(t.events) = t.total

\* Every thread has ended and the main loop has no callback left to run.
Quiescent ==
    /\ after_queue = <<>>
    /\ \A k \in Threads : threads[k].pc = "done"

(***************************************************************************)
(* C13: every run that disabled the controls re-enables them: once every   *)
(* started thread has ended and every callback it scheduled has been run,  *)
(* _processing_complete or _processing_error has run and the controls are  *)
(* enabled, whether the results were displayed, saved, the save returned   *)
(* false or process_batch raised.                                          *)
(***************************************************************************)
C13_EveryRunReenablesControls ==
    (Threads # {} /\ Quiescent) => controls

\* The iterator of thread k's batch is exhausted: its next step returns.
BatchAboutToReturn(k) ==
    /\ threads[k].pc = "loop"
    /\ threads[k].i >= Len(threads[k].image_paths)

(***************************************************************************)
(* C14: selected_files holds no path twice, the listbox has one row per    *)
(* path, in the same order, showing the path's basename, and a batch that  *)
(* is about to return holds exactly len(selected_files) entries.           *)
(***************************************************************************)
C14_SelectionMatchesListbox ==
    /\ \A j, m \in 1..Len(selected_files) :
          selected_files[j] = selected_files[m] => j = m
    /\ Len(file_list) = Len(selected_files)
    /\ \A j \in 1..Len(selected_files) :
          IsBasenameOf(file_list[j], selected_files[j])
    /\ \A k \in Threads :
          BatchAboutToReturn(k) => Len(threads[k].results) = Len(selected_files)

\* Three paths were selected, a pasted one among them and two with the same
\* basename, and a batch over them is about to return.
C14_Witness ==
    /\ Len(selected_files) = 3
    /\ \E j \in 1..3 : selected_files[j] \in TempPaths
    /\ \E j, m \in 1..3 : j # m /\ file_list[j] = file_list[m]
    /\ \E k \in Threads : BatchAboutToReturn(k) /\ threads[k].i = 3

\* Thread k has been started and has not yet handed its results on.
BatchRunning(k) ==
    threads[k].pc \in {"start", "loop", "process_image", "returned"}

\* Thread k is about to call save_to_json(results, self.output_path).
AboutToSave(k) == threads[k].pc = "returned" /\ ~display_output_var

(***************************************************************************)
(* C15: a background batch runs only with a non-empty selected_files and   *)
(* with an output file selected or display-in-GUI checked; a thread that   *)
(* is about to call save_to_json passes a selected output path, never      *)
(* None.                                                                   *)
(***************************************************************************)
C15_BatchStartedOnlyWithOutput ==
    \A k \in Threads :
        /\ BatchRunning(k) =>
              /\ selected_files # <<>>
              /\ output_path # None \/ display_output_var
        /\ AboutToSave(k) => output_path \in Destinations

\* A first run displayed its results; display was then unchecked by the
\* choice of an output file, and a second run is about to save to it.
C15_Witness ==
    /\ Len(threads) = 2
    /\ ocr_output_text # <<>>
    /\ AboutToSave(2)
    /\ threads[2].results # <<>>
    /\ output_path = "out.json"

====
